---- MODULE Spec2Model ----
(***************************************************************************)
(* A model of pisces (src/pisces/__init__.py): Route / Router pattern      *)
(* compilation and matching, the parameter binder, the response consumers  *)
(* and the dispatch done by AppContainer.wsgi_app.                         *)
(*                                                                         *)
(* Python strings are modelled as tuples of one-character strings, so that *)
(* re.sub, the regular-expression matcher and str.split("__", 1) are        *)
(* computed character by character, as the code computes them.  The code   *)
(* is Python 2 (inspect.getargspec, dict.items() returning a list), and    *)
(* that is the semantics modelled.                                         *)
(***************************************************************************)
EXTENDS Integers, Sequences, FiniteSets, TLC

(***************************************************************************)
(* Bounds of the model.                                                    *)
(***************************************************************************)
\* Every path over PathChars of at most this many characters is probed.
MaxPathLen == 3
MaxThreads == 2

\* Python's None where a string is expected (a string is a tuple of
\* one-character strings, which this is not), and where a dict is expected.
None == <<"None">>
NoneDict == (None :> None)

(***************************************************************************)
(* Route._compile_regex: re.sub replaces every <name> of the url by the    *)
(* named group (?P<name>.* ), and the result is wrapped in ^ and $.         *)
(***************************************************************************)
\* The least j > i with url[j] = ">" and no newline in url[i+1..j-1] (the
\* lazy "<.*?>" of the substitution), or 0 when there is none.
ClosePos(url, i) ==
    LET ends == { j \in (i + 1)..Len(url) :
                     /\ url[j] = ">"
                     /\ \A k \in (i + 1)..(j - 1) : url[k] # "\n" }
    IN  IF ends = {} THEN 0 ELSE CHOOSE j \in ends : \A k \in ends : j <= k

RECURSIVE SubFrom(_, _)
\* re.sub from position i on: leftmost, non-overlapping matches of <.*?>
\* are replaced by a named group, every other character is copied.
SubFrom(url, i) ==
    IF i > Len(url) THEN <<>>
    ELSE IF url[i] = "<" /\ ClosePos(url, i) # 0
         THEN <<"(", "?", "P">> \o SubSeq(url, i, ClosePos(url, i))
                  \o <<".", "*", ")">> \o SubFrom(url, ClosePos(url, i) + 1)
         ELSE <<url[i]>> \o SubFrom(url, i + 1)

RECURSIVE SubFromPlus(_, _)
\* The substitution as it would be with (?P<name>.+) as the replacement.
SubFromPlus(url, i) ==
    IF i > Len(url) THEN <<>>
    ELSE IF url[i] = "<" /\ ClosePos(url, i) # 0
         THEN <<"(", "?", "P">> \o SubSeq(url, i, ClosePos(url, i))
                  \o <<".", "+", ")">>
                  \o SubFromPlus(url, ClosePos(url, i) + 1)
         ELSE <<url[i]>> \o SubFromPlus(url, i + 1)

\* The pattern text as it would be if a placeholder took one or more
\* characters.
PatternTextPlus(url) == <<"^">> \o SubFromPlus(url, 1) \o <<"$">>

\* The pattern text handed to re.compile.
PatternText(url) == <<"^">> \o SubFrom(url, 1) \o <<"$">>

(***************************************************************************)
(* re.compile, for the part of the syntax the routes use: anchors, named   *)
(* and unnamed groups, ".", backslash escapes, literals, and the greedy    *)
(* quantifiers "*" and "+" on a one-character atom.  The pattern becomes a *)
(* sequence of tokens [t, c, q, name].                                     *)
(***************************************************************************)
Tok(t, c, q, name) == [t |-> t, c |-> c, q |-> q, name |-> name]

\* The quantifier that follows position i of the pattern text, "1" if none.
QuantAt(re, i) ==
    IF i <= Len(re) /\ re[i] \in {"*", "+"} THEN re[i] ELSE "1"

RECURSIVE Tokens(_, _)
Tokens(re, i) ==
    IF i > Len(re) THEN <<>>
    ELSE IF re[i] = "^" THEN <<Tok("bol", "", "1", <<>>)>> \o Tokens(re, i + 1)
    ELSE IF re[i] = "$" THEN <<Tok("eol", "", "1", <<>>)>> \o Tokens(re, i + 1)
    ELSE IF re[i] = ")" THEN <<Tok("close", "", "1", <<>>)>> \o Tokens(re, i + 1)
    ELSE IF re[i] = "("
         THEN IF i + 3 <= Len(re) /\ re[i + 1] = "?" /\ re[i + 2] = "P"
                    /\ re[i + 3] = "<"
              THEN \* (?P<name> : a named group
                   LET gt == ClosePos(re, i + 3)
                   IN  <<Tok("open", "", "1", SubSeq(re, i + 4, gt - 1))>>
                           \o Tokens(re, gt + 1)
              ELSE <<Tok("open", "", "1", <<>>)>> \o Tokens(re, i + 1)
    ELSE IF re[i] = "\\"
         THEN <<Tok("lit", re[i + 1], QuantAt(re, i + 2), <<>>)>>
                  \o Tokens(re, IF QuantAt(re, i + 2) = "1" THEN i + 2 ELSE i + 3)
    ELSE <<Tok(IF re[i] = "." THEN "any" ELSE "lit", re[i],
               QuantAt(re, i + 1), <<>>)>>
             \o Tokens(re, IF QuantAt(re, i + 1) = "1" THEN i + 1 ELSE i + 2)

\* Route._compile_regex(url): the compiled matcher (self._re).
_compile_regex(url) == Tokens(PatternText(url), 1)

(***************************************************************************)
(* The matcher: re.match of a token sequence against a string, by          *)
(* backtracking, greedy quantifiers trying the longest repetition first.   *)
(***************************************************************************)
\* Does a one-character atom match character ch?  "." matches anything but
\* a newline.
AtomMatches(tok, ch) ==
    IF tok.t = "any" THEN ch # "\n" ELSE ch = tok.c

RECURSIVE RunLen(_, _, _)
\* How many consecutive characters of s after position pos the atom matches.
RunLen(tok, s, pos) ==
    IF pos < Len(s) /\ AtomMatches(tok, s[pos + 1])
    THEN 1 + RunLen(tok, s, pos + 1) ELSE 0

\* No match; otherwise a match object: its groupdict() and its end().
NoMatch == [ok |-> FALSE, groups |-> <<>>, end |-> 0]

\* groups with name bound to val.
SetGroup(groups, name, val) ==
    [n \in DOMAIN groups \cup {name} |-> IF n = name THEN val ELSE groups[n]]

RECURSIVE MatchFrom(_, _, _, _, _, _)
RECURSIVE TryRep(_, _, _, _, _, _, _)
\* Match tokens i.. against s from offset pos (characters consumed so far);
\* stack holds the open groups as <<name, start offset>>.
MatchFrom(toks, s, i, pos, stack, groups) ==
    IF i > Len(toks) THEN [ok |-> TRUE, groups |-> groups, end |-> pos]
    ELSE LET tok == toks[i] IN
      CASE tok.t = "bol" ->
             IF pos = 0 THEN MatchFrom(toks, s, i + 1, pos, stack, groups)
             ELSE NoMatch
        [] tok.t = "eol" ->
             \* "$": the end of the string, or just before a newline that
             \* ends the string.
             IF pos = Len(s) \/ (pos = Len(s) - 1 /\ s[Len(s)] = "\n")
             THEN MatchFrom(toks, s, i + 1, pos, stack, groups)
             ELSE NoMatch
        [] tok.t = "open" ->
             MatchFrom(toks, s, i + 1, pos,
                       Append(stack, <<tok.name, pos>>), groups)
        [] tok.t = "close" ->
             LET top  == stack[Len(stack)]
                 rest == SubSeq(stack, 1, Len(stack) - 1)
                 val  == SubSeq(s, top[2] + 1, pos)
             IN  MatchFrom(toks, s, i + 1, pos, rest,
                           IF top[1] = <<>> THEN groups
                           ELSE SetGroup(groups, top[1], val))
        [] OTHER ->
             IF tok.q = "1"
             THEN IF pos < Len(s) /\ AtomMatches(tok, s[pos + 1])
                  THEN MatchFrom(toks, s, i + 1, pos + 1, stack, groups)
                  ELSE NoMatch
             ELSE TryRep(toks, s, i, pos, stack, groups, RunLen(tok, s, pos))

\* The quantified atom toks[i] repeated k times, then k - 1, ... down to its
\* minimum: the first repetition count the rest of the pattern accepts.
TryRep(toks, s, i, pos, stack, groups, k) ==
    IF k < (IF toks[i].q = "+" THEN 1 ELSE 0) THEN NoMatch
    ELSE LET r == MatchFrom(toks, s, i + 1, pos + k, stack, groups)
         IN  IF r.ok THEN r ELSE TryRep(toks, s, i, pos, stack, groups, k - 1)

\* self._re.match(route): a match object, or no match.
ReMatch(toks, s) == MatchFrom(toks, s, 1, 0, <<>>, <<>>)

(***************************************************************************)
(* Names.  An identifier is the tuple of its characters.                   *)
(***************************************************************************)
SEP      == <<"_", "_">>
S_self   == <<"s", "e", "l", "f">>
S_get    == <<"g", "e", "t">>
S_post   == <<"p", "o", "s", "t">>
S_cookie == <<"c", "o", "o", "k", "i", "e">>
S_zz     == <<"z", "z">>
S_a      == <<"a">>
S_t      == <<"t">>
S_x      == <<"x">>
S_y      == <<"y">>
S_kw     == <<"k", "w">>
S_url    == <<"u", "r", "l">>
S_one    == <<"o", "n", "e">>
S_two    == <<"t", "w", "o">>
S_pisces_cookie ==
    <<"p", "i", "s", "c", "e", "s", "_", "c", "o", "o", "k", "i", "e">>

\* "<name>"
Ph(name) == <<"<">> \o name \o <<">">>

(***************************************************************************)
(* Route                                                                   *)
(***************************************************************************)
ALL_METHODS == {"GET", "POST"}

\* The methods argument left at its default, None.
MethodsNone == {"None"}

\* Route.__init__(url, instance, method_str, methods): methods = None is
\* replaced by ALL_METHODS, and the url is compiled once.
Route(url, instance, method_str, methods) ==
    [url      |-> url,
     re       |-> _compile_regex(url),
     instance |-> instance,
     callback |-> method_str,
     methods  |-> IF methods = MethodsNone THEN ALL_METHODS ELSE methods]

\* Route._match(route): the groupdict of the match, or None.
_match(self, route) ==
    LET m == ReMatch(self.re, route)
    IN  IF m.ok THEN m.groups ELSE NoneDict

\* Route.handles_route(route, method)
handles_route(self, route, method) ==
    _match(self, route) # NoneDict /\ method \in self.methods

(***************************************************************************)
(* Handlers: the methods of the instance the routes point to.  A handler   *)
(* is what inspect.getargspec reads of it (args, the name of its **        *)
(* parameter or None, the parameters that have a default) and its body.    *)
(***************************************************************************)
Handler(args, keywords, defaults, body) ==
    [args |-> args, keywords |-> keywords, defaults |-> defaults,
     body |-> body]

\* The attributes of the endpoint instance, by name.  "broken" is an
\* attribute whose value is None; any other name is not an attribute.
Endpoint ==
    [index   |-> Handler(<<S_self>>, None, {}, "index"),
     nothing |-> Handler(<<S_self>>, None, {}, "nothing"),
     login   |-> Handler(<<S_self, S_x, S_get \o SEP \o S_a,
                           S_post \o SEP \o S_a, S_cookie \o SEP \o S_a,
                           S_zz \o SEP \o S_a, S_a>>, None,
                         {S_post \o SEP \o S_a, S_zz \o SEP \o S_a, S_a},
                         "login"),
     needs   |-> Handler(<<S_self, S_a>>, None, {}, "index"),
     catch   |-> Handler(<<S_self>>, S_get \o SEP \o S_kw, {}, "catch"),
     getcap  |-> Handler(<<S_self, S_get \o SEP \o S_a>>, None, {}, "getcap"),
     edge    |-> Handler(<<S_self, S_get \o <<"_">> \o SEP \o S_a,
                           SEP \o S_a, S_get \o SEP,
                           S_get \o <<"_">> \o S_a>>, None,
                         {SEP \o S_a, S_get \o <<"_">> \o S_a}, "edge"),
     broken  |-> Handler(<<>>, None, {}, "None")]

\* The attributes of an instance: the routes' instance is an Endpoint.
Attributes(instance) == IF instance = "endpoint" THEN Endpoint ELSE <<>>

\* dict.get(key)
Get(d, key) == IF key \in DOMAIN d THEN d[key] ELSE None

\* The value a handler's body sees for parameter name: the argument passed,
\* or the declared default.
Default == <<"d", "f", "l", "t">>
Arg(kwargs, name) == IF name \in DOMAIN kwargs THEN kwargs[name] ELSE Default

\* What the handler's body returns when called with kwargs: a dict, or None.
Returns(h, kwargs) ==
    CASE h.body = "index"   -> (<<"m", "s", "g">> :> <<"W">>)
      [] h.body = "nothing" -> NoneDict
      [] h.body = "login"   ->
           (S_cookie \o SEP \o S_t :> Arg(kwargs, S_get \o SEP \o S_a))
           @@ (S_url :> Arg(kwargs, S_post \o SEP \o S_a))
           @@ (S_zz \o SEP \o S_a :> Arg(kwargs, S_cookie \o SEP \o S_a))
      [] h.body = "catch"   ->
           (S_cookie \o SEP \o S_a :> <<"1">>)
           @@ (S_cookie \o SEP \o S_t :> None)
           @@ (S_get \o SEP \o S_a :> Get(kwargs, S_get \o SEP \o S_kw))
      [] h.body = "getcap"  -> (S_url :> Arg(kwargs, S_get \o SEP \o S_a))
      [] h.body = "edge"    ->
           (S_cookie \o <<"_">> \o SEP \o S_t
                :> Arg(kwargs, S_get \o <<"_">> \o SEP \o S_a))
           @@ (SEP \o S_a :> Arg(kwargs, S_get \o SEP))
           @@ (S_cookie \o <<"_">> \o S_t :> <<"h">>)

\* Python's call of a bound method with keyword arguments kwargs succeeds
\* when every keyword is a parameter (or there is a ** parameter) and every
\* parameter without a default is given; otherwise it raises TypeError.
CallOk(h, kwargs) ==
    /\ \A k \in DOMAIN kwargs :
          \/ \E i \in 1..Len(h.args) : h.args[i] = k /\ k # S_self
          \/ h.keywords # None
    /\ \A i \in 1..Len(h.args) :
          \/ h.args[i] = S_self
          \/ h.args[i] \in h.defaults
          \/ h.args[i] \in DOMAIN kwargs

(***************************************************************************)
(* Route.handle and Router.match                                           *)
(***************************************************************************)
\* What a call returns or raises: a functools.partial, None, or an exception.
Partial(instance, callback, keywords) ==
    [kind |-> "partial", instance |-> instance, callback |-> callback,
     keywords |-> keywords]
NonePartial ==
    [kind |-> "None", instance |-> "", callback |-> "", keywords |-> NoneDict]
Raise(exc) ==
    [kind |-> exc, instance |-> "", callback |-> "", keywords |-> NoneDict]

\* Route.handle as it would be if a handler name that does not resolve were
\* passed over (None returned) instead of raising.
handle_swallow(self, route) ==
    LET params == _match(self, route)
    IN  IF self.callback \notin DOMAIN Attributes(self.instance)
        THEN NonePartial
        ELSE IF Attributes(self.instance)[self.callback].body = "None"
        THEN NonePartial
        ELSE IF params = NoneDict THEN Raise("TypeError")
        ELSE Partial(self.instance, self.callback,
                     IF DOMAIN params = {} THEN NoneDict ELSE params)

\* Route.handle(route): getattr raises AttributeError for a name that is no
\* attribute, and the code raises it for an attribute that is None;
\* partial(method, **params) raises TypeError when params is None.  A
\* partial built without keywords has keywords None (Python 2).
handle(self, route) ==
    LET params == _match(self, route)
    IN  IF self.callback \notin DOMAIN Attributes(self.instance)
        THEN Raise("AttributeError")
        ELSE IF Attributes(self.instance)[self.callback].body = "None"
        THEN Raise("AttributeError")
        ELSE IF params = NoneDict THEN Raise("TypeError")
        ELSE Partial(self.instance, self.callback,
                     IF DOMAIN params = {} THEN NoneDict ELSE params)

RECURSIVE MatchLoop(_, _, _, _)
\* Router.match, from endpoint i on.
MatchLoop(endpoints, route, method, i) ==
    IF i > Len(endpoints) THEN NonePartial
    ELSE IF handles_route(endpoints[i], route, method)
         THEN handle(endpoints[i], route)
         ELSE MatchLoop(endpoints, route, method, i + 1)

\* Router.match as it would be if the scan kept the last endpoint that
\* handles the request instead of returning at the first.
match_last(endpoints, route, method) ==
    LET hs == { i \in 1..Len(endpoints) :
                   handles_route(endpoints[i], route, method) }
    IN  IF hs = {} THEN NonePartial
        ELSE handle(endpoints[CHOOSE i \in hs : \A j \in hs : j <= i], route)

\* Router.match(route, method)
match(endpoints, route, method) == MatchLoop(endpoints, route, method, 1)

(***************************************************************************)
(* ArgProviders and ResponseConsumers                                      *)
(***************************************************************************)
\* A provider or consumer object: its class's prefix, the request attribute
\* its get_value reads, and (CookieHandler) the cookie name it was built
\* with.
GetProvider  == [prefix |-> S_get, source |-> "args", cookie_name |-> None]
PostProvider == [prefix |-> S_post, source |-> "form", cookie_name |-> None]
CookieProvider ==
    [prefix |-> S_cookie, source |-> "cookies", cookie_name |-> None]
\* CookieHandler.__init__(cookie_name="pisces_cookie")
CookieHandler(cookie_name) ==
    [prefix |-> S_cookie, source |-> "cookies", cookie_name |-> cookie_name]

\* get_value as it would be if every provider fell back on the query
\* parameters for a key its own category lacks.
get_value_fallback(provider, request, param) ==
    LET own == CASE provider.source = "args"    -> Get(request.args, param)
                 [] provider.source = "form"    -> Get(request.form, param)
                 [] provider.source = "cookies" -> Get(request.cookies, param)
    IN  IF own = None THEN Get(request.args, param) ELSE own

\* get_value(request, param) of a provider: request.args.get(param),
\* request.form.get(param) or request.cookies.get(param).
get_value(provider, request, param) ==
    CASE provider.source = "args"    -> Get(request.args, param)
      [] provider.source = "form"    -> Get(request.form, param)
      [] provider.source = "cookies" -> Get(request.cookies, param)

\* The dict built by "for p in objs: table[p.get_prefix()] = p": for each
\* prefix, the last object that has it.
PrefixTable(objs) ==
    [pre \in { objs[i].prefix : i \in 1..Len(objs) } |->
        objs[CHOOSE i \in 1..Len(objs) :
                /\ objs[i].prefix = pre
                /\ \A j \in 1..Len(objs) : objs[j].prefix = pre => j <= i]]

\* The offset of the first "__" in s, or 0 when there is none.
FirstSep(s) ==
    LET at == { i \in 1..(Len(s) - 1) : s[i] = "_" /\ s[i + 1] = "_" }
    IN  IF at = {} THEN 0 ELSE CHOOSE i \in at : \A j \in at : i <= j

\* s.split("__", 1): one part when s holds no "__", otherwise the text
\* before the first "__" and the text after it.
Split(s) ==
    IF FirstSep(s) = 0 THEN <<s>>
    ELSE <<SubSeq(s, 1, FirstSep(s) - 1), SubSeq(s, FirstSep(s) + 2, Len(s))>>

\* set(argspec.keywords): the set of the CHARACTERS of the ** parameter's
\* name, each a one-character string.
KeywordsSet(keywords) ==
    IF keywords = None THEN {}
    ELSE { <<keywords[i]>> : i \in 1..Len(keywords) }

\* The binder's names as they would be if the names passed in from the url
\* match were not taken out of the signature.
remaining_args_all(h, method) ==
    ({ h.args[i] : i \in 1..Len(h.args) } \cup KeywordsSet(h.keywords))
        \ {S_self}

\* The names the binder considers: signature minus the partial's keywords,
\* minus 'self'.
remaining_args(h, method) ==
    (({ h.args[i] : i \in 1..Len(h.args) } \cup KeywordsSet(h.keywords))
        \ (IF method.keywords = NoneDict THEN {} ELSE DOMAIN method.keywords))
        \ {S_self}

\* Will the loop of _extract_params_from_request bind param?
Binds(table, param) ==
    /\ Len(Split(param)) = 2
    /\ Split(param)[1] \in DOMAIN table

\* AppContainer._extract_params_from_request(method, request); h is
\* method.func.
_extract_params_from_request(arg_providers, h, method, request) ==
    LET table == PrefixTable(arg_providers)
    IN  [param \in { q \in remaining_args(h, method) : Binds(table, q) } |->
            get_value(table[Split(param)[1]], request, Split(param)[2])]

\* A Response: its mimetype, the cookie operations done on it in order, and
\* its data.
Response(mimetype) == [mimetype |-> mimetype, cookies |-> <<>>, data |-> <<>>]

\* CookieHandler.set_value(response, key, value)
set_value(consumer, response, key, value) ==
    IF value = None
    THEN [response EXCEPT !.cookies =
            Append(@, [op |-> "delete_cookie", name |-> key, value |-> None])]
    ELSE [response EXCEPT !.cookies =
            Append(@, [op |-> "set_cookie", name |-> consumer.cookie_name,
                       value |-> value])]

\* del json_obj[key] left out: the key stays in the mapping.
Del_keep(json_obj, key) == json_obj

\* json_obj without key (del json_obj[key]).
Del(json_obj, key) == [k \in DOMAIN json_obj \ {key} |-> json_obj[k]]

RECURSIVE MutationLoop(_, _, _, _, _, _)
\* The loop of apply_consumer_mutations over items, the list json_obj.items()
\* returned (Python 2: a copy, so deleting inside the loop is safe), from
\* item i on.  calls records each set_value call as <<prefix, param, value>>.
MutationLoop(table, items, i, json_obj, response, calls) ==
    IF i > Len(items)
    THEN [json_obj |-> json_obj, response |-> response, calls |-> calls]
    ELSE LET key   == items[i][1]
             value == items[i][2]
             parts == Split(key)
         IN  IF Len(parts) # 2 \/ parts[1] \notin DOMAIN table
             THEN MutationLoop(table, items, i + 1, json_obj, response, calls)
             ELSE MutationLoop(table, items, i + 1, Del(json_obj, key),
                      set_value(table[parts[1]], response, parts[2], value),
                      Append(calls, <<parts[1], parts[2], value>>))

\* AppContainer.apply_consumer_mutations(json_obj, response), with the
\* order in which json_obj.items() lists the keys.
apply_consumer_mutations(consumers, json_obj, response, order) ==
    MutationLoop(PrefixTable(consumers),
                 [i \in 1..Len(order) |-> <<order[i], json_obj[order[i]]>>],
                 1, json_obj, response, <<>>)

\* json.dumps(value_map): the JSON object with the dict's keys, each value
\* JSON-encoded (None as null, a string quoted).
JsonDumps(value_map) ==
    [k \in DOMAIN value_map |->
        IF value_map[k] = None THEN <<"null">>
        ELSE <<"\"">> \o value_map[k] \o <<"\"">>]

(***************************************************************************)
(* Inputs: the url templates, paths, methods, routers, containers and      *)
(* requests the model is run on.                                           *)
(***************************************************************************)
T_root    == <<"/">>
T_a       == <<"/", "a">>
T_x       == <<"/">> \o Ph(S_x)
T_xy      == <<"/">> \o Ph(S_x) \o <<"/", "a", "/">> \o Ph(S_y)
T_onetwo  == <<"/">> \o Ph(S_one) \o <<"/", "a", "n", "d", "/">> \o Ph(S_two)
T_group   == <<"/", "a", "(", ".", "*", ")", "b">>
T_plus    == <<"/", "a", "+">>
T_dot     == <<"/", "a", ".", "b">>
T_details == <<"/">> \o Ph(S_x) \o <<"\\", "+">>
T_getcap  == <<"/">> \o Ph(S_get \o SEP \o S_a)
T_adj     == <<"/">> \o Ph(S_x) \o <<".">> \o Ph(S_y)

Templates ==
    {T_root, T_a, T_x, T_xy, T_onetwo, T_group, T_plus, T_dot, T_details,
     T_getcap, T_adj}

\* The characters of the template that lie outside its <...> placeholders,
\* in order (what the substitution copies).
RECURSIVE LiteralText(_, _)
LiteralText(url, i) ==
    IF i > Len(url) THEN <<>>
    ELSE IF url[i] = "<" /\ ClosePos(url, i) # 0
         THEN LiteralText(url, ClosePos(url, i) + 1)
         ELSE <<url[i]>> \o LiteralText(url, i + 1)

PathChars == {"/", "a", "b", "+", "\n"}

RECURSIVE Strings(_, _)
\* The strings over chars of at most n characters.
Strings(chars, n) ==
    IF n = 0 THEN {<<>>}
    ELSE LET shorter == Strings(chars, n - 1)
         IN  shorter \cup { Append(s, c) : s \in shorter, c \in chars }

P_billted ==
    <<"/", "b", "i", "l", "l", "/", "a", "n", "d", "/", "t", "e", "d">>
P_azb     == <<"/", "a", "z", "b">>
P_group   == T_group
P_dot     == T_dot
P_long    == <<"/", "N", "B", "2", "=">>

Paths ==
    Strings(PathChars, MaxPathLen)
        \cup {P_billted, P_azb, P_group, P_dot, P_long, T_details,
              <<"/", "a", "/", "a", "/", "b">>, <<"/", "a", "b", "+", "\n">>}

Methods == {"GET", "POST", "DELETE"}

\* The routes probed one at a time.
ProbeRoutes ==
    { Route(t, "endpoint", "login", MethodsNone) : t \in Templates }
        \cup { Route(t, "endpoint", "missing", {"POST"}) : t \in {T_a, T_x} }
        \cup { Route(t, "endpoint", "broken", {"GET"}) : t \in {T_root, T_x} }

\* The routers dispatched on.
Routers ==
    { << Route(T_root, "endpoint", "index", {"GET"}),
         Route(T_root, "endpoint", "nothing", {"POST"}),
         Route(T_details, "endpoint", "catch", MethodsNone),
         Route(T_x, "endpoint", "login", MethodsNone) >>,
      << Route(T_x, "endpoint", "login", MethodsNone),
         Route(T_a, "endpoint", "index", MethodsNone),
         Route(T_x, "endpoint", "catch", MethodsNone) >>,
      << Route(T_a, "endpoint", "missing", MethodsNone),
         Route(T_x, "endpoint", "login", MethodsNone) >>,
      << Route(T_getcap, "endpoint", "getcap", {"GET"}),
         Route(T_x, "endpoint", "broken", {"POST"}),
         Route(T_a, "endpoint", "needs", {"DELETE"}) >>,
      << Route(T_a, "endpoint", "edge", MethodsNone),
         Route(T_root, "endpoint", "catch", MethodsNone),
         Route(T_x, "endpoint", "needs", MethodsNone) >>,
      << >> }

\* AppContainer.__init__'s defaults for providers and consumers, and the
\* other lists it is built with here.
DefaultProviders ==
    <<PostProvider, GetProvider, CookieHandler(S_pisces_cookie)>>
DefaultConsumers == <<CookieHandler(S_pisces_cookie)>>
ProviderLists == {DefaultProviders, <<GetProvider, CookieProvider>>}
ConsumerLists == {DefaultConsumers, <<>>}

\* The paths requested: every string of at most MaxPathLen of these
\* characters, and two more.
RequestChars == {"/", "a"}
RequestPaths ==
    Strings(RequestChars, MaxPathLen) \cup {<<"/", "a", "+">>, <<"b">>}
V_query  == <<"q">>
V_form   == <<"f">>
V_cookie == <<"c">>
Requests ==
    [path    : RequestPaths,
     method  : Methods,
     args    : {<<>>, (S_a :> V_query)},
     form    : {<<>>, (S_a :> V_form)},
     cookies : {<<>>, (S_a :> V_cookie)}]

NoRequest ==
    [path |-> <<>>, method |-> "", args |-> <<>>, form |-> <<>>,
     cookies |-> <<>>]

\* The orders in which a dict with these keys may list them.
Orders(keys) ==
    { o \in [1..Cardinality(keys) -> keys] :
         \A i, j \in 1..Cardinality(keys) : o[i] = o[j] => i = j }

(***************************************************************************)
(* State                                                                   *)
(***************************************************************************)
VARIABLES
    routes,         \* AppContainer._routes: the routers, each its endpoints
    arg_providers,  \* AppContainer._arg_providers
    consumers,      \* AppContainer._consumers
    request,        \* the request being dispatched
    pc,             \* where the dispatch is
    ri,             \* the index in routes of wsgi_app's loop
    method,         \* wsgi_app's method: what route.match returned
    extra_params,   \* wsgi_app's extra_params
    value_map,      \* wsgi_app's value_map
    response,       \* wsgi_app's response
    invoked,        \* the handler calls made: <<callback, kwargs, returned>>
    calls,          \* the set_value calls made: <<prefix, param, value>>
    probe,          \* the last call made on a single route, and its result
    current,        \* the thread that is running
    suspended       \* the wsgi_app frame of each thread that is not running

vars == <<routes, arg_providers, consumers, request, pc, ri, method,
          extra_params, value_map, response, invoked, calls, probe,
          current, suspended>>

config == <<routes, arg_providers, consumers>>
locals == <<method, extra_params, value_map, response, invoked, calls>>
sched  == <<current, suspended>>

NoProbe ==
    [op |-> "", route |-> <<>>, method |-> "", handles |-> FALSE,
     groups |-> NoneDict, handled |-> NonePartial]

NoResponse == [mimetype |-> "", cookies |-> <<>>, data |-> <<>>]

IdleLocals ==
    /\ request = NoRequest
    /\ pc = "Idle"
    /\ ri = 1
    /\ method = NonePartial
    /\ extra_params = <<>>
    /\ value_map = NoneDict
    /\ response = NoResponse
    /\ invoked = <<>>
    /\ calls = <<>>
    /\ probe = NoProbe

\* One thread runs wsgi_app; no other thread exists.
SingleThread ==
    /\ current = 1
    /\ suspended = <<>>

\* AppContainer.__init__(router, providers, consumers)
Init ==
    /\ \E router \in Routers : routes = <<router>>
    /\ arg_providers \in ProviderLists
    /\ consumers \in ConsumerLists
    /\ IdleLocals
    /\ SingleThread

\* The handler a partial defers to.
Func(m) == Attributes(m.instance)[m.callback]

\* The keyword arguments of the call method(**extra_params) on the partial:
\* the partial's keywords and extra_params.
CallKwargs(m, extra) ==
    LET kw == IF m.keywords = NoneDict THEN <<>> ELSE m.keywords
    IN  [k \in DOMAIN kw \cup DOMAIN extra |->
            IF k \in DOMAIN extra THEN extra[k] ELSE kw[k]]

(***************************************************************************)
(* AppContainer.wsgi_app, step by step                                     *)
(***************************************************************************)
\* request = Request(environ)
Receive(req) ==
    /\ pc = "Idle"
    /\ request' = req
    /\ pc' = "Received"
    /\ UNCHANGED <<config, ri, locals, probe, sched>>

\* method = route.match(request.path, request.method), for the router the
\* loop is at: None continues the loop, an exception leaves wsgi_app.
Match ==
    /\ pc = "Received"
    /\ ri <= Len(routes)
    /\ LET m == match(routes[ri], request.path, request.method)
       IN  CASE m.kind = "None" ->
                  /\ ri' = ri + 1
                  /\ UNCHANGED <<pc, method>>
             [] m.kind = "partial" ->
                  /\ method' = m
                  /\ pc' = "Matched"
                  /\ UNCHANGED ri
             [] OTHER ->
                  /\ pc' = m.kind
                  /\ UNCHANGED <<ri, method>>
    /\ UNCHANGED <<config, request, extra_params, value_map, response,
                   invoked, calls, probe, sched>>

\* The loop is over: raise NotFound().
NotFound ==
    /\ pc = "Received"
    /\ ri > Len(routes)
    /\ pc' = "NotFound"
    /\ UNCHANGED <<config, request, ri, locals, probe, sched>>

\* extra_params = self._extract_params_from_request(method, request)
Bind ==
    /\ pc = "Matched"
    /\ extra_params' = _extract_params_from_request(arg_providers,
                           Func(method), method, request)
    /\ pc' = "Bound"
    /\ UNCHANGED <<config, request, ri, method, value_map, response,
                   invoked, calls, probe, sched>>

\* value_map = method(**extra_params): the call raises TypeError, or the
\* handler runs and returns.
Invoke ==
    /\ pc = "Bound"
    /\ LET kwargs == CallKwargs(method, extra_params)
       IN  IF CallOk(Func(method), kwargs)
           THEN /\ invoked' = Append(invoked,
                               <<method.callback, kwargs,
                                 Returns(Func(method), kwargs)>>)
                /\ value_map' = Returns(Func(method), kwargs)
                /\ pc' = "Invoked"
           ELSE /\ pc' = "TypeError"
                /\ UNCHANGED <<invoked, value_map>>
    /\ UNCHANGED <<config, request, ri, method, extra_params, response,
                   calls, probe, sched>>

\* value_map is None: the body of the if is skipped and the loop goes on.
Skip ==
    /\ pc = "Invoked"
    /\ value_map = NoneDict
    /\ ri' = ri + 1
    /\ pc' = "Received"
    /\ UNCHANGED <<config, request, locals, probe, sched>>

\* response = Response(mimetype="application/json");
\* self.apply_consumer_mutations(value_map, response)
Mutate ==
    /\ pc = "Invoked"
    /\ value_map # NoneDict
    /\ \E order \in Orders(DOMAIN value_map) :
          LET r == apply_consumer_mutations(consumers, value_map,
                       Response("application/json"), order)
          IN  /\ value_map' = r.json_obj
              /\ response' = r.response
              /\ calls' = r.calls
    /\ pc' = "Mutated"
    /\ UNCHANGED <<config, request, ri, method, extra_params, invoked,
                   probe, sched>>

\* response.data = json.dumps(value_map)
Serialize ==
    /\ pc = "Mutated"
    /\ response' = [response EXCEPT !.data = JsonDumps(value_map)]
    /\ pc' = "Serialized"
    /\ UNCHANGED <<config, request, ri, method, extra_params, value_map,
                   invoked, calls, probe, sched>>

\* return response(environ, start_response)
Send ==
    /\ pc = "Serialized"
    /\ pc' = "Sent"
    /\ UNCHANGED <<config, request, ri, locals, probe, sched>>

Next ==
    \/ \E req \in Requests : Receive(req)
    \/ Match
    \/ NotFound
    \/ Bind
    \/ Invoke
    \/ Skip
    \/ Mutate
    \/ Serialize
    \/ Send

Spec == Init /\ [][Next]_vars

(***************************************************************************)
(* Calls on a single Route                                                 *)
(***************************************************************************)
InitRoute ==
    /\ \E r \in ProbeRoutes : routes = << <<r>> >>
    /\ arg_providers = DefaultProviders
    /\ consumers = DefaultConsumers
    /\ IdleLocals
    /\ SingleThread

TheRoute == routes[1][1]

\* endpoint.handles_route(route, method)
HandlesRoute(route, m) ==
    /\ probe = NoProbe
    /\ probe' = [NoProbe EXCEPT !.op = "handles_route", !.route = route,
                                !.method = m,
                                !.handles = handles_route(TheRoute, route, m)]
    /\ UNCHANGED <<config, request, pc, ri, locals, sched>>

\* endpoint._match(route)
MatchRoute(route) ==
    /\ probe = NoProbe
    /\ probe' = [NoProbe EXCEPT !.op = "_match", !.route = route,
                                !.groups = _match(TheRoute, route)]
    /\ UNCHANGED <<config, request, pc, ri, locals, sched>>

\* endpoint.handle(route)
HandleRoute(route) ==
    /\ probe = NoProbe
    /\ probe' = [NoProbe EXCEPT !.op = "handle", !.route = route,
                                !.handled = handle(TheRoute, route)]
    /\ UNCHANGED <<config, request, pc, ri, locals, sched>>

\* The call returns to its caller; the Route is ready for the next call.
Return ==
    /\ probe # NoProbe
    /\ probe' = NoProbe
    /\ UNCHANGED <<config, request, pc, ri, locals, sched>>

NextRoute ==
    \/ \E route \in Paths, m \in Methods : HandlesRoute(route, m)
    \/ \E route \in Paths : MatchRoute(route)
    \/ \E route \in Paths : HandleRoute(route)
    \/ Return

SpecRoute == InitRoute /\ [][NextRoute]_vars

(***************************************************************************)
(* Concurrent dispatches                                                   *)
(*                                                                         *)
(* A WSGI server calls the one AppContainer's wsgi_app from several        *)
(* threads.  Each call has its own frame: request, the loop index, method, *)
(* extra_params, value_map and response are local variables of wsgi_app,   *)
(* and the Request, the partial, the dicts and the Response they name are  *)
(* created by that call (the handlers return a new dict on each call).     *)
(* The threads share the AppContainer, its routers and routes, and its     *)
(* providers and consumers.  A thread may be preempted between any two     *)
(* statements: the running thread's frame is the variables of the          *)
(* dispatch, the other threads' frames wait in suspended.                  *)
(***************************************************************************)
Threads == 1..MaxThreads

\* The frame of the running call of wsgi_app.
Frame ==
    [request |-> request, pc |-> pc, ri |-> ri, method |-> method,
     extra_params |-> extra_params, value_map |-> value_map,
     response |-> response, invoked |-> invoked, calls |-> calls]

\* The frame of a thread that is not in wsgi_app.
IdleFrame ==
    [request |-> NoRequest, pc |-> "Idle", ri |-> 1, method |-> NonePartial,
     extra_params |-> <<>>, value_map |-> NoneDict, response |-> NoResponse,
     invoked |-> <<>>, calls |-> <<>>]

\* A frame that keeps nothing of its own between two runs of its thread:
\* extra_params is whatever the thread that ran last left there.
Resume_shared(f) ==
    /\ request' = f.request
    /\ pc' = f.pc
    /\ ri' = f.ri
    /\ method' = f.method
    /\ UNCHANGED extra_params
    /\ value_map' = f.value_map
    /\ response' = f.response
    /\ invoked' = f.invoked
    /\ calls' = f.calls

\* The thread whose frame is f runs again: wsgi_app's local variables are
\* those of its own frame.
Resume(f) ==
    /\ request' = f.request
    /\ pc' = f.pc
    /\ ri' = f.ri
    /\ method' = f.method
    /\ extra_params' = f.extra_params
    /\ value_map' = f.value_map
    /\ response' = f.response
    /\ invoked' = f.invoked
    /\ calls' = f.calls

\* The routers and the requests of the concurrent dispatches: the routers
\* whose last route is the login handler's and whose first is another
\* handler's, and requests that end in a response, in NotFound and in
\* AttributeError.
ConcRouters ==
    { r \in Routers :
         /\ r # <<>>
         /\ r[Len(r)].callback = "login"
         /\ r[1].callback # "login" }
ConcRequests ==
    { [path |-> <<"/">>, method |-> "POST", args |-> <<>>,
       form |-> (S_a :> V_form), cookies |-> (S_a :> V_cookie)],
      [path |-> <<"/", "a">>, method |-> "GET", args |-> (S_a :> V_query),
       form |-> <<>>, cookies |-> <<>>],
      [path |-> <<"/", "a", "+">>, method |-> "GET", args |-> <<>>,
       form |-> <<>>, cookies |-> <<>>] }

\* AppContainer.__init__, and the server's threads, none yet in wsgi_app.
InitConc ==
    /\ \E router \in ConcRouters : routes = <<router>>
    /\ arg_providers = DefaultProviders
    /\ consumers = DefaultConsumers
    /\ IdleLocals
    /\ current = 1
    /\ suspended = [t \in Threads |-> IdleFrame]

\* The running thread is preempted and thread t runs.
Switch(t) ==
    /\ t # current
    /\ suspended' = [suspended EXCEPT ![current] = Frame, ![t] = IdleFrame]
    /\ current' = t
    /\ Resume(suspended[t])
    /\ UNCHANGED <<config, probe>>

\* wsgi_app has returned or raised: the thread is ready for its next
\* request.
Finish ==
    /\ pc \in {"Sent", "NotFound", "AttributeError", "TypeError"}
    /\ Resume(IdleFrame)
    /\ UNCHANGED <<config, probe, sched>>

NextConc ==
    \/ \E req \in ConcRequests : Receive(req)
    \/ Match
    \/ NotFound
    \/ Bind
    \/ Invoke
    \/ Skip
    \/ Mutate
    \/ Serialize
    \/ Send
    \/ Finish
    \/ \E t \in Threads : Switch(t)

SpecConc == InitConc /\ [][NextConc]_vars

(***************************************************************************)
(* Properties                                                              *)
(***************************************************************************)
\* The endpoints of the first router that handle the request.
Handling ==
    { i \in 1..Len(routes[1]) :
         handles_route(routes[1][i], request.path, request.method) }

\* The first of them, in declaration order.
FirstHandling == CHOOSE i \in Handling : \A j \in Handling : i <= j

\* Does the handler name of endpoint e resolve on its instance?
Resolves(e) ==
    /\ e.callback \in DOMAIN Attributes(e.instance)
    /\ Attributes(e.instance)[e.callback].body # "None"

\* route.match has returned or raised in this dispatch.
MatchReturned == pc # "Idle" /\ ~(pc = "Received" /\ ri = 1)

\* route.match returned None: the loop went on without a handler call.
MatchReturnedNone ==
    pc \in {"Received", "NotFound"} /\ ri = 2 /\ invoked = <<>>

\* C1: Router.match returns the deferred handler of the FIRST endpoint, in
\* declaration order, that handles (path, method), whatever later endpoints
\* also handle it, and returns None exactly when no endpoint handles it.
C1_FirstMatchWins ==
    /\ MatchReturned => (MatchReturnedNone <=> Handling = {})
    /\ method.kind = "partial" =>
          /\ Handling # {}
          /\ method.instance = routes[1][FirstHandling].instance
          /\ method.callback = routes[1][FirstHandling].callback
          /\ LET groups == _match(routes[1][FirstHandling], request.path)
             IN  IF DOMAIN groups = {} THEN method.keywords = NoneDict
                 ELSE method.keywords = groups

\* C1's case: several endpoints handle the request and a later one points to
\* another handler than the one returned.
C1_Witness ==
    /\ pc = "Matched"
    /\ Cardinality(Handling) >= 2
    /\ \E j \in Handling : routes[1][j].callback # method.callback

\* Does the compiled pattern of the probed route match the ENTIRE path: the
\* match ends at the path's last character?
MatchesEntirePath ==
    LET m == ReMatch(TheRoute.re, probe.route)
    IN  m.ok /\ m.end = Len(probe.route)

\* C2: handles_route(path, method) is true if and only if the route's
\* compiled pattern matches the entire path and method is one of the route's
\* allowed methods.
C2_HandlesIffFullMatchAndMethod ==
    probe.op = "handles_route" =>
        (probe.handles <=>
            (MatchesEntirePath /\ probe.method \in TheRoute.methods))

\* The same, for the paths that do not end in a newline: there the code does
\* what C2 says.
C2_HoldsUnlessTrailingNewline ==
    (probe.op = "handles_route"
        /\ (probe.route = <<>> \/ probe.route[Len(probe.route)] # "\n")) =>
        (probe.handles <=>
            (MatchesEntirePath /\ probe.method \in TheRoute.methods))

\* C3: a dispatch ends in NotFound if and only if no router matches the
\* request; once a handler has been invoked the dispatch does not end in
\* NotFound, whether the handler returned a mapping or None.
C3_NotFoundIffNoMatch ==
    /\ pc = "NotFound" => (Handling = {} /\ invoked = <<>>)
    /\ (MatchReturned /\ Handling = {}) => pc \in {"Received", "NotFound"}

\* Does name hold a "__"?
HasSep(name) ==
    \E i \in 1..(Len(name) - 1) : name[i] = "_" /\ name[i + 1] = "_"

\* Where the FIRST "__" of name starts.
SepAt(name) ==
    CHOOSE i \in 1..(Len(name) - 1) :
        /\ name[i] = "_" /\ name[i + 1] = "_"
        /\ \A j \in 1..(i - 1) : ~(name[j] = "_" /\ name[j + 1] = "_")

\* The text before the first "__" of name, and the text after it.
PrefixOf(name) == SubSeq(name, 1, SepAt(name) - 1)
RestOf(name) == SubSeq(name, SepAt(name) + 2, Len(name))

ConsumerPrefixes == { consumers[i].prefix : i \in 1..Len(consumers) }
ProviderPrefixes == { arg_providers[i].prefix : i \in 1..Len(arg_providers) }

\* The mapping the handler returned in this dispatch.
Returned == invoked[Len(invoked)][3]

\* The keys of it that name a registered consumer.
ConsumedKeys ==
    { k \in DOMAIN Returned : HasSep(k) /\ PrefixOf(k) \in ConsumerPrefixes }

\* C4: every key of the result mapping whose prefix (the text before its
\* first "__") is a registered consumer is passed to that consumer exactly
\* once, with the text after the first "__" and its value, and is absent from
\* the body; every other key is passed to no consumer and is in the body
\* under its full name with its value.  The body is the serialization of the
\* result mapping restricted to the keys not consumed.
C4_ConsumedKeysLeaveBody ==
    pc \in {"Mutated", "Serialized", "Sent"} =>
        /\ \A k \in ConsumedKeys :
              /\ Cardinality({ i \in DOMAIN calls :
                    calls[i] = <<PrefixOf(k), RestOf(k), Returned[k]>> }) = 1
              /\ k \notin DOMAIN value_map
        /\ Len(calls) = Cardinality(ConsumedKeys)
        /\ DOMAIN value_map = DOMAIN Returned \ ConsumedKeys
        /\ \A k \in DOMAIN value_map : value_map[k] = Returned[k]
        /\ pc # "Mutated" =>
              response.data =
                  JsonDumps([k \in DOMAIN Returned \ ConsumedKeys |->
                                Returned[k]])

\* C4's case: a response sent for a mapping with a consumed key, a key whose
\* prefix is no consumer's, and a key without "__".
C4_Witness ==
    /\ pc = "Sent"
    /\ ConsumedKeys # {}
    /\ \E k \in DOMAIN Returned \ ConsumedKeys : HasSep(k)
    /\ \E k \in DOMAIN Returned : ~HasSep(k)

\* The binder has run in this dispatch.
BinderRan == method.kind = "partial" /\ pc # "Matched"

\* The url captures of the matched route.
Captures ==
    IF method.keywords = NoneDict THEN {} ELSE DOMAIN method.keywords

\* The named parameters the matched handler declares.
DeclaredParams ==
    { Func(method).args[i] : i \in 1..Len(Func(method).args) }

\* C5: a declared parameter is bound if and only if it is not 'self', is not
\* a url capture, holds a "__", and the text before its first "__" is the
\* prefix of a registered provider; nothing else is bound (the name of a **
\* parameter is no named parameter, and is not bound), so the bound names are
\* disjoint from the url captures, and a parameter without "__" or with an
\* unregistered prefix is left out without an error.
C5_WhichNamesAreBound ==
    BinderRan =>
        /\ \A p \in DeclaredParams \cup DOMAIN extra_params
                    \cup {Func(method).keywords} :
              p \in DOMAIN extra_params <=>
                  /\ p \in DeclaredParams
                  /\ p # S_self
                  /\ p \notin Captures
                  /\ HasSep(p)
                  /\ PrefixOf(p) \in ProviderPrefixes
        /\ DOMAIN extra_params \cap Captures = {}

\* C5's case: the handler declares a parameter named like a provider
\* parameter that the url captured, and the request has a query value for
\* it: the binder leaves it alone.
C5_Witness ==
    /\ pc = "Bound"
    /\ \E p \in DeclaredParams \cap Captures :
          /\ HasSep(p)
          /\ PrefixOf(p) \in ProviderPrefixes
          /\ RestOf(p) \in DOMAIN request.args
          /\ p \notin DOMAIN extra_params

\* The request's values of the category a provider prefix stands for.
Category(prefix) ==
    CASE prefix = S_get    -> request.args
      [] prefix = S_post   -> request.form
      [] prefix = S_cookie -> request.cookies

\* C6: a bound parameter prefix__key has the value the request holds for
\* key in the prefix's own category (query for get, form for post, cookies
\* for cookie), and None when that category lacks the key; the handler is
\* called with that value even where it declares a default.
C6_BoundValueFromOwnCategory ==
    BinderRan =>
        /\ \A p \in DOMAIN extra_params :
              extra_params[p] =
                  (IF RestOf(p) \in DOMAIN Category(PrefixOf(p))
                   THEN Category(PrefixOf(p))[RestOf(p)] ELSE None)
        /\ invoked # <<>> =>
              \A p \in DOMAIN extra_params :
                  invoked[1][2][p] = extra_params[p]

\* C6's case: the handler declares post__a with a default, the request has
\* a only among its query parameters, and the handler is called with None.
C6_Witness ==
    /\ pc = "Invoked"
    /\ S_post \o SEP \o S_a \in Func(method).defaults
    /\ S_a \in DOMAIN request.args
    /\ S_a \notin DOMAIN request.form
    /\ S_post \o SEP \o S_a \in DOMAIN extra_params
    /\ invoked[1][2][S_post \o SEP \o S_a] = None

\* C7: when the handler name of the first route that handles the request
\* does not resolve, the dispatch ends in the AttributeError terminal: no
\* handler is invoked, no later route is tried, no response is made, and it
\* does not end in NotFound.  When it resolves, handle returns the deferred
\* call with the url captures and the handler is not yet invoked.
C7_ConfigurationError ==
    /\ pc = "AttributeError" =>
          /\ Handling # {}
          /\ ~Resolves(routes[1][FirstHandling])
          /\ invoked = <<>> /\ calls = <<>>
          /\ response = NoResponse
          /\ method = NonePartial /\ ri = 1
          /\ ~ENABLED Next
    /\ (MatchReturned /\ Handling # {}
            /\ ~Resolves(routes[1][FirstHandling])) => pc = "AttributeError"
    /\ pc = "Matched" =>
          /\ Resolves(routes[1][FirstHandling])
          /\ Captures = DOMAIN _match(routes[1][FirstHandling], request.path)
          /\ \A n \in Captures :
                method.keywords[n] =
                    _match(routes[1][FirstHandling], request.path)[n]
          /\ invoked = <<>>

\* C7's case: the first route that handles the request has a handler name
\* that does not resolve, and a later route that handles it has one that does.
C7_Witness ==
    /\ pc = "AttributeError"
    /\ \E j \in Handling : Resolves(routes[1][j])

\* C8: a result entry cookie__K with a value v sets the cookie named K to v,
\* and with None deletes the cookie named K.
C8_CookieNamedByKey ==
    pc \in {"Mutated", "Serialized", "Sent"} =>
        /\ Len(response.cookies) = Len(calls)
        /\ \A i \in DOMAIN calls :
              /\ response.cookies[i].name = calls[i][2]
              /\ calls[i][3] = None =>
                    response.cookies[i].op = "delete_cookie"
              /\ calls[i][3] # None =>
                    /\ response.cookies[i].op = "set_cookie"
                    /\ response.cookies[i].value = calls[i][3]

\* What the code does instead: a value sets the cookie named by the
\* handler's cookie_name, whatever K is; None deletes the cookie named K.
C8_SetUsesCookieName ==
    pc \in {"Mutated", "Serialized", "Sent"} =>
        /\ Len(response.cookies) = Len(calls)
        /\ \A i \in DOMAIN calls :
              IF calls[i][3] = None
              THEN response.cookies[i] =
                       [op |-> "delete_cookie", name |-> calls[i][2],
                        value |-> None]
              ELSE response.cookies[i] =
                       [op |-> "set_cookie", name |-> S_pisces_cookie,
                        value |-> calls[i][3]]

RECURSIVE PlaceholderNames(_, _)
\* The names of the <name> placeholders of a template, from character i on.
PlaceholderNames(url, i) ==
    IF i > Len(url) THEN {}
    ELSE IF url[i] = "<" /\ ClosePos(url, i) # 0
         THEN {SubSeq(url, i + 1, ClosePos(url, i) - 1)}
                  \cup PlaceholderNames(url, ClosePos(url, i) + 1)
         ELSE PlaceholderNames(url, i + 1)

\* Is val a run of consecutive characters of s?
IsSubstring(val, s) ==
    \E from \in 1..(Len(s) + 1) : val = SubSeq(s, from, from + Len(val) - 1)

P_bill == <<"b", "i", "l", "l">>
P_ted  == <<"t", "e", "d">>

\* C9 as stated: a match yields exactly the template's placeholder names,
\* each bound to ONE OR MORE characters, so "/<x>" does not match "/";
\* "/<one>/and/<two>" against "/bill/and/ted" yields one = bill, two = ted.
C9_CapturesNonEmpty ==
    probe.op = "_match" =>
        /\ probe.groups # NoneDict =>
              /\ DOMAIN probe.groups = PlaceholderNames(TheRoute.url, 1)
              /\ \A n \in DOMAIN probe.groups : Len(probe.groups[n]) >= 1
        /\ (TheRoute.url = T_x /\ probe.route = T_root) =>
              probe.groups = NoneDict
        /\ (TheRoute.url = T_onetwo /\ probe.route = P_billted) =>
              probe.groups = (S_one :> P_bill) @@ (S_two :> P_ted)

\* C9 as amended: a match yields exactly the template's placeholder names,
\* each bound to ZERO or more consecutive characters of the path, none of
\* them a newline; "/<x>" matches "/" with x bound to the empty string;
\* "/<one>/and/<two>" against "/bill/and/ted" yields one = bill, two = ted.
C9_CapturesPossiblyEmpty ==
    probe.op = "_match" =>
        /\ probe.groups # NoneDict =>
              /\ DOMAIN probe.groups = PlaceholderNames(TheRoute.url, 1)
              /\ \A n \in DOMAIN probe.groups :
                    /\ IsSubstring(probe.groups[n], probe.route)
                    /\ \A i \in 1..Len(probe.groups[n]) :
                          probe.groups[n][i] # "\n"
        /\ (TheRoute.url = T_x /\ probe.route = T_root) =>
              probe.groups = (S_x :> <<>>)
        /\ (TheRoute.url = T_onetwo /\ probe.route = P_billted) =>
              probe.groups = (S_one :> P_bill) @@ (S_two :> P_ted)

\* C9's case: a path that matches only with a placeholder bound to the empty
\* string has been matched.
C9_Witness ==
    /\ probe.op = "_match"
    /\ TheRoute.url = T_x
    /\ probe.route = T_root
    /\ probe.groups # NoneDict
    /\ probe.groups[S_x] = <<>>

RECURSIVE LiteralMatch(_, _, _, _)
\* Is s, from offset pos on, the template from character i on with every
\* character outside the placeholders taken literally and every placeholder
\* replaced by some text?
LiteralMatch(url, i, s, pos) ==
    IF i > Len(url) THEN pos = Len(s)
    ELSE IF url[i] = "<" /\ ClosePos(url, i) # 0
         THEN \E k \in 0..(Len(s) - pos) :
                 LiteralMatch(url, ClosePos(url, i) + 1, s, pos + k)
         ELSE /\ pos < Len(s)
              /\ s[pos + 1] = url[i]
              /\ LiteralMatch(url, i + 1, s, pos + 1)

NoNewline(s) == \A i \in 1..Len(s) : s[i] # "\n"

\* C10: every character of a template outside its placeholders, regular
\* expression metacharacters included, is matched literally: a path matches
\* exactly when it is the template with its placeholders filled in.
C10_LiteralTextMatchedLiterally ==
    (probe.op = "_match" /\ NoNewline(probe.route)) =>
        (probe.groups # NoneDict <=>
            LiteralMatch(TheRoute.url, 1, probe.route, 0))

Metacharacters == {".", "*", "+", "(", ")", "\\", "?", "[", "]", "|", "^", "$"}

\* The same, for the templates whose literal text holds no metacharacter:
\* there the code does what C10 says.
C10_HoldsWithoutMetacharacters ==
    (probe.op = "_match" /\ NoNewline(probe.route)
        /\ \A i \in 1..Len(LiteralText(TheRoute.url, 1)) :
              LiteralText(TheRoute.url, 1)[i] \notin Metacharacters) =>
        (probe.groups # NoneDict <=>
            LiteralMatch(TheRoute.url, 1, probe.route, 0))

\* The frame of every thread: its own variables for the running one.
Frames == [t \in Threads |-> IF t = current THEN Frame ELSE suspended[t]]

\* How far a frame is into wsgi_app.
PastMatch == {"Matched", "Bound", "Invoked", "Mutated", "Serialized", "Sent"}
PastBind  == {"Bound", "Invoked", "Mutated", "Serialized", "Sent"}
Ended     == {"Sent", "NotFound", "AttributeError", "TypeError"}

\* The dispatch of req alone, from the configuration cfg = <<routes,
\* arg_providers, consumers>> with a single router: how it ends, the
\* partial matched, the arguments bound, what the handler returns and,
\* for each order the result mapping may be listed in, the set_value
\* calls and the response.
Alone(cfg, req) ==
    LET m      == match(cfg[1][1], req.path, req.method)
        extra  == _extract_params_from_request(cfg[2], Func(m), m, req)
        kwargs == CallKwargs(m, extra)
        ret    == Returns(Func(m), kwargs)
        mut(o) == apply_consumer_mutations(cfg[3], ret,
                      Response("application/json"), o)
    IN  CASE m.kind = "None" ->
               [pc |-> "NotFound", method |-> NonePartial,
                extra_params |-> <<>>, invoked |-> <<>>, sent |-> {}]
          [] m.kind # "partial" ->
               [pc |-> m.kind, method |-> NonePartial,
                extra_params |-> <<>>, invoked |-> <<>>, sent |-> {}]
          [] OTHER ->
               IF ~CallOk(Func(m), kwargs)
               THEN [pc |-> "TypeError", method |-> m,
                     extra_params |-> extra, invoked |-> <<>>, sent |-> {}]
               ELSE IF ret = NoneDict
               THEN [pc |-> "NotFound", method |-> m,
                     extra_params |-> extra,
                     invoked |-> << <<m.callback, kwargs, ret>> >>,
                     sent |-> {}]
               ELSE [pc |-> "Sent", method |-> m, extra_params |-> extra,
                     invoked |-> << <<m.callback, kwargs, ret>> >>,
                     sent |-> { [calls |-> mut(o).calls,
                                 response |->
                                    [mut(o).response EXCEPT
                                       !.data = JsonDumps(mut(o).json_obj)]]
                                : o \in Orders(DOMAIN ret) }]

\* The frame f holds what the dispatch of its request alone would hold at
\* the same place.
Isolated(cfg, f) ==
    LET alone == Alone(cfg, f.request)
    IN  /\ f.pc \in PastMatch =>
              /\ alone.method.kind = "partial"
              /\ f.method = alone.method
        /\ f.pc \in PastBind => f.extra_params = alone.extra_params
        /\ f.pc \in Ended =>
              /\ f.pc = alone.pc
              /\ f.invoked = alone.invoked
        /\ f.pc = "Sent" =>
              [calls |-> f.calls, response |-> f.response] \in alone.sent

\* Every thread's dispatch is as its request's dispatch alone.
AllIsolated == \A t \in Threads : Isolated(config, Frames[t])

\* C11: however the dispatches of several threads interleave, and however
\* many each thread has made, the routers and their routes (pattern,
\* handler reference, allowed methods) and the provider and consumer
\* lists are those the AppContainer was constructed with, and every
\* thread's dispatch holds the matched route, the bound arguments, the
\* handler call, the cookies set and the serialized body that the dispatch
\* of its request alone would hold.
C11_DispatchesAreIsolated ==
    /\ [][config' = config]_vars
    /\ []AllIsolated

\* Two threads are inside wsgi_app at once with different requests: the
\* running one has sent a response that sets a cookie while another one,
\* preempted after its handler returned, holds different bound arguments
\* and a different result mapping.
C11_Witness ==
    /\ pc = "Sent"
    /\ response.cookies # <<>>
    /\ \E t \in Threads \ {current} :
          /\ suspended[t].pc = "Invoked"
          /\ suspended[t].request # request
          /\ suspended[t].extra_params # extra_params
          /\ suspended[t].extra_params # <<>>
          /\ suspended[t].value_map # value_map

====
